---- MODULE Spec2Model ----
(***************************************************************************)
(* Model of the news-copy backend (src/index.js): an express server with   *)
(* three POST handlers, /indexar, /generate-copies and /buscar_similar,    *)
(* that sequence calls to an embedding service, a vector store, a          *)
(* generative model, an HTML fetch and a URL shortener.                    *)
(*                                                                         *)
(* A request is a record; its pc names the external call the handler is    *)
(* awaiting.  One action models one run of a handler between two awaits:   *)
(* node runs it to completion, and other requests interleave only at the   *)
(* awaits.  Strings are sequences of characters, a fixed text that is      *)
(* never taken apart being a sequence of one element; a JavaScript value   *)
(* that may be undefined is a set with at most one element.                *)
(***************************************************************************)
EXTENDS Naturals, Sequences, FiniteSets

VARIABLES
  req,      \* the requests received, in order of arrival
  store,    \* the records of the vector index
  now,      \* the last value Date.now() returned
  lastGen   \* the generateContent call that returned in the last step

vars == <<req, store, now, lastGen>>

\* Bounds of the model: the requests received in one run, and the largest
\* value the millisecond clock reaches.
MaxReq == 2
MaxClock == 1

(***************************************************************************)
(* Strings and JavaScript values                                           *)
(***************************************************************************)
Undefined == {}
Some(v) == {v}
TheValue(o) == CHOOSE v \in o : TRUE

\* !v for a string-or-undefined value: undefined and "" are falsy.
Truthy(o) == o # Undefined /\ o # Some(<<>>)

Whitespace == {" ", "\n"}

RECURSIVE TrimStart(_)
TrimStart(s) ==
  IF s # <<>> /\ Head(s) \in Whitespace THEN TrimStart(Tail(s)) ELSE s

RECURSIVE TrimEnd(_)
TrimEnd(s) ==
  IF s # <<>> /\ s[Len(s)] \in Whitespace
  THEN TrimEnd(SubSeq(s, 1, Len(s) - 1))
  ELSE s

\* String.prototype.trim
Trim(s) == TrimEnd(TrimStart(s))

\* req.body.f
Field(body, f) == IF f \in DOMAIN body THEN Some(body[f]) ELSE Undefined

\* The bodies clients send: each field absent, empty or a text.
IndexarBodies ==
  {[noticia |-> <<"n">>], [copy |-> <<"c">>],
   [noticia |-> <<>>, copy |-> <<"c">>],
   [noticia |-> <<"n">>, copy |-> <<"c">>]}
GenerateBodies == {<<>>, [url |-> <<>>], [url |-> <<"u">>]}
BuscarBodies == {<<>>, [texto |-> <<"q">>]}

(***************************************************************************)
(* Responses                                                               *)
(***************************************************************************)
NoJson == [none |-> TRUE]
ErrorJson(msg) == [error |-> msg]

IndexarMissing == <<"La 'noticia' y el 'copy' son obligatorios.">>
IndexarFailed == <<"Hubo un error al indexar la noticia.">>
IndexarOk == <<"Noticia indexada exitosamente.">>
GenerateMissing == <<"La URL es obligatoria.">>
GenerateFailed == <<"Hubo un error al generar los copys.">>
BuscarMissing == <<"Se requiere un campo 'texto' para buscar similitud.">>
BuscarNotFound == <<"No se encontraron coincidencias similares.">>
BuscarFailed == <<"Hubo un error al buscar la similitud.">>

Placeholder == <<"Texto no disponible">>

(***************************************************************************)
(* External services: what a call can come back with                       *)
(***************************************************************************)
\* hf.featureExtraction: the call throws, or resolves to a value that is or
\* is not an array.
HfResults == {"throw", "notArray", "array"}

\* The embedding of a text, an opaque value that names the text.
Vector(text) == <<"embedding", text>>

\* getEmbedding: a non-array result and a thrown error both end in the
\* rethrown "Error generando embeddings."
GetEmbedding(hf, text) ==
  IF hf = "array"
  THEN [threw |-> FALSE, value |-> Vector(text)]
  ELSE [threw |-> TRUE, value |-> <<>>]

\* fetch(url) and the document it yields: the fetch fails, or the page has
\* or lacks each of og:title, og:description and a <title> element.
PageResults ==
  {"fetchFail", "full", "titleTagOnly", "noDescription", "emptyOgTitle"}

Page(p) ==
  CASE p = "full" ->
         [ogTitle |-> Some(<<" ", "T", " ">>), ogDescription |-> Some(<<"D", " ">>),
          titleTag |-> Some(<<"P">>)]
    [] p = "titleTagOnly" ->
         [ogTitle |-> Undefined, ogDescription |-> Some(<<"D">>),
          titleTag |-> Some(<<"P">>)]
    [] p = "noDescription" ->
         [ogTitle |-> Some(<<"T">>), ogDescription |-> Undefined,
          titleTag |-> Some(<<"P">>)]
    [] p = "emptyOgTitle" ->
         [ogTitle |-> Some(<<>>), ogDescription |-> Some(<<"D">>),
          titleTag |-> Some(<<"P">>)]

\* Faulty variant: the title falls back to the <title> element and the description
\* is optional.
GetTitleWithFallback(p) ==
  IF p = "fetchFail"
  THEN [threw |-> TRUE, title |-> <<>>, description |-> <<>>]
  ELSE LET title == IF Truthy(Page(p).ogTitle)
                    THEN Page(p).ogTitle ELSE Page(p).titleTag
           description == Page(p).ogDescription
       IN IF ~Truthy(title)
          THEN [threw |-> TRUE, title |-> <<>>, description |-> <<>>]
          ELSE [threw |-> FALSE,
                title |-> Trim(TheValue(title)),
                description |->
                  IF Truthy(description) THEN Trim(TheValue(description)) ELSE <<>>]

\* getTitleAndDescription: only the two og: meta tags are read.
GetTitleAndDescription(p) ==
  IF p = "fetchFail"
  THEN [threw |-> TRUE, title |-> <<>>, description |-> <<>>]
  ELSE LET title == Page(p).ogTitle
           description == Page(p).ogDescription
       IN IF ~Truthy(title) \/ ~Truthy(description)
          THEN [threw |-> TRUE, title |-> <<>>, description |-> <<>>]
          ELSE [threw |-> FALSE,
                title |-> Trim(TheValue(title)),
                description |-> Trim(TheValue(description))]

\* model.generateContent: the call throws, or resolves to a result whose
\* chain response.candidates[0].content.parts[0].text stops somewhere.
GenResults ==
  {"throw", "noResponse", "noCandidates", "noParts", "emptyText", "padded"}

GenResult(g) ==
  CASE g = "noResponse" -> <<>>
    [] g = "noCandidates" -> [response |-> [candidates |-> <<>>]]
    [] g = "noParts" ->
         [response |-> [candidates |-> <<[content |-> [parts |-> <<>>]]>>]]
    [] g = "emptyText" ->
         [response |->
            [candidates |-> <<[content |-> [parts |-> <<[text |-> <<>>]>>]]>>]]
    [] g = "padded" ->
         [response |->
            [candidates |->
               <<[content |-> [parts |-> <<[text |-> <<" ", "b", " ", "c", "\n">>]>>]]>>]]

\* o?.f and o?.[i] (i counted from 1)
Prop(o, f) ==
  IF o = Undefined THEN Undefined
  ELSE IF f \in DOMAIN TheValue(o) THEN Some(TheValue(o)[f]) ELSE Undefined

Index(o, i) ==
  IF o = Undefined THEN Undefined
  ELSE IF i \in DOMAIN TheValue(o) THEN Some(TheValue(o)[i]) ELSE Undefined

\* resp.response?.candidates?.[0]?.content?.parts?.[0]?.text
FirstCandidateText(resp) ==
  Prop(Index(Prop(Prop(Index(Prop(Prop(Some(resp), "response"),
                                  "candidates"), 1),
                       "content"), "parts"), 1), "text")

\* Faulty variant: no placeholder; a missing text reads as the empty string.
CopyRawNoDefault(resp) ==
  IF Truthy(FirstCandidateText(resp))
  THEN TheValue(FirstCandidateText(resp))
  ELSE <<>>

\* ... || "Texto no disponible"
CopyRaw(resp) ==
  IF Truthy(FirstCandidateText(resp))
  THEN TheValue(FirstCandidateText(resp))
  ELSE Placeholder

\* shortenUrl: the fetch throws, bitly answers not ok, or it answers a link.
ShortenResults == {"fetchThrow", "notOk", "ok"}
ShortLink == <<"s">>
ShortenThrows(s) == s # "ok"

(***************************************************************************)
(* The vector store                                                        *)
(***************************************************************************)
\* index.upsert: writes the record under its id, replacing a record that
\* has the same id.
Upsert(st, rec) == {e \in st : e.id # rec.id} \cup {rec}

Min(a, b) == IF a < b THEN a ELSE b

\* A stored record as a query reports it; the score is an opaque value.
Match(e) == [id |-> e.id, score |-> <<"score">>, metadata |-> e.metadata]

\* The sequences of n matches for n distinct records of st.
Rankings(st, n) ==
  {[i \in 1..n |-> Match(m[i])] :
     m \in {f \in [1..n -> st] : \A i, j \in 1..n : i # j => f[i] # f[j]}}

\* index.query: the call throws, or resolves to the topK nearest records in
\* some order of score, or to a result without a matches field.
QueryResults(st, topK) ==
  {[threw |-> TRUE, matches |-> Undefined],
   [threw |-> FALSE, matches |-> Undefined]}
  \cup {[threw |-> FALSE, matches |-> Some(m)] :
          m \in Rankings(st, Min(topK, Cardinality(st)))}

GenerateTopK == 3
BuscarTopK == 1

(***************************************************************************)
(* Requests                                                                *)
(***************************************************************************)
Platforms == {"facebook", "twitter", "wpp"}

\* A request as received: nothing called, nothing answered.  calls lists
\* the external calls the handler issued, pending those not yet returned,
\* failed the external call that threw, page what the fetch yielded, wrote
\* the times the handler's upsert wrote the store.
NewRequest(kind, body) ==
  [kind |-> kind, body |-> body, pc |-> "start", status |-> 0, json |-> NoJson,
   calls |-> <<>>, pending |-> {}, failed |-> "", page |-> "",
   id |-> 0, wrote |-> 0,
   title |-> <<>>, description |-> <<>>, combinedText |-> <<>>,
   vector |-> <<>>, similares |-> <<>>, referencesFb |-> <<>>,
   facebookCopy |-> <<>>, twitterText |-> <<>>, wppText |-> <<>>]

\* res.status(code).json(body): the handler returns.
Respond(rq, code, body) ==
  [rq EXCEPT !.pc = "done", !.status = code, !.json = body]

\* Faulty variant: the catch block answers with the facebook copy generated so far.
FailWithPartialResult(rq, msg) ==
  [Respond(NewRequest(rq.kind, rq.body), 500,
           [error |-> msg, facebook |-> rq.facebookCopy]) EXCEPT
     !.calls = rq.calls, !.pending = rq.pending, !.failed = rq.pc]

\* The catch block of a handler, entered because the awaited call threw:
\* the locals of the try block are out of scope, and the answer is a 500.
Fail(rq, msg) ==
  [Respond(NewRequest(rq.kind, rq.body), 500, ErrorJson(msg)) EXCEPT
     !.calls = rq.calls, !.pending = rq.pending, !.failed = rq.pc]

\* The handler issues an external call and awaits it.
Await(rq, call) ==
  [rq EXCEPT !.pc = call, !.calls = Append(@, call), !.pending = @ \cup {call}]

\* The awaited call returns or throws.
Settle(rq) == [rq EXCEPT !.pending = @ \ {rq.pc}]

Reqs == 1..Len(req)

\* No generateContent call returned in the last step.
NoGen == [req |-> 0, platform |-> "", result |-> ""]

Init ==
  /\ req = <<>>
  /\ store = {}
  /\ now = 0
  /\ lastGen = NoGen

\* The call request r awaits returns, and the handler runs up to its next
\* await or to its answer.
Resume(r, rq) ==
  /\ req' = [req EXCEPT ![r] = rq]
  /\ lastGen' = NoGen
  /\ UNCHANGED <<store, now>>

Awaits(r, kind, call) == req[r].kind = kind /\ req[r].pc = call

(***************************************************************************)
(* POST /indexar                                                           *)
(***************************************************************************)
\* Faulty variant: the validation rejects a body only when both fields are missing.
IndexarStartBothMissing(rq) ==
  IF ~Truthy(Field(rq.body, "noticia")) /\ ~Truthy(Field(rq.body, "copy"))
  THEN Respond(rq, 400, ErrorJson(IndexarMissing))
  ELSE Await(rq, "embed")

\* The validation of the body, and the first external call.
IndexarStart(rq) ==
  IF ~Truthy(Field(rq.body, "noticia")) \/ ~Truthy(Field(rq.body, "copy"))
  THEN Respond(rq, 400, ErrorJson(IndexarMissing))
  ELSE Await(rq, "embed")

\* The request arrives and the handler runs up to its first await.
Indexar(body) ==
  /\ Len(req) < MaxReq
  /\ req' = Append(req, IndexarStart(NewRequest("indexar", body)))
  /\ lastGen' = NoGen
  /\ UNCHANGED <<store, now>>

\* Faulty variant: a failed embedding is swallowed and the record is upserted
\* without a vector.
IndexarAfterEmbedSwallowed(rq, hf, t) ==
  LET e == GetEmbedding(hf, rq.body["noticia"]) IN
  [Await(rq, "upsert") EXCEPT !.vector = e.value, !.id = t]

\* getEmbedding returned or threw; with the vector, the record is built
\* under the id Date.now().toString() = t and the upsert is issued.
IndexarAfterEmbed(rq, hf, t) ==
  LET e == GetEmbedding(hf, rq.body["noticia"]) IN
  IF e.threw
  THEN Fail(rq, IndexarFailed)
  ELSE [Await(rq, "upsert") EXCEPT !.vector = e.value, !.id = t]

IndexarEmbedded(r, hf) ==
  /\ Awaits(r, "indexar", "embed")
  /\ \E t \in now..MaxClock :
       /\ now' = IF GetEmbedding(hf, req[r].body["noticia"]).threw THEN now ELSE t
       /\ req' = [req EXCEPT ![r] = IndexarAfterEmbed(Settle(@), hf, t)]
  /\ lastGen' = NoGen
  /\ UNCHANGED store

\* The record the handler hands to index.upsert.
IndexarRecord(rq) ==
  [id |-> rq.id, values |-> rq.vector,
   metadata |-> [noticia |-> rq.body["noticia"], copy |-> rq.body["copy"]]]

\* index.upsert returned or threw.
IndexarAfterUpsert(rq, ok) ==
  IF ok
  THEN [Respond(rq, 200, [message |-> IndexarOk]) EXCEPT !.wrote = @ + 1]
  ELSE Fail(rq, IndexarFailed)

IndexarUpserted(r, ok) ==
  /\ Awaits(r, "indexar", "upsert")
  /\ store' = IF ok THEN Upsert(store, IndexarRecord(req[r])) ELSE store
  /\ req' = [req EXCEPT ![r] = IndexarAfterUpsert(Settle(@), ok)]
  /\ lastGen' = NoGen
  /\ UNCHANGED now

(***************************************************************************)
(* POST /buscar_similar                                                    *)
(***************************************************************************)
BuscarStart(rq) ==
  IF ~Truthy(Field(rq.body, "texto"))
  THEN Respond(rq, 400, ErrorJson(BuscarMissing))
  ELSE Await(rq, "embed")

\* The request arrives and the handler runs up to its first await.
Buscar(body) ==
  /\ Len(req) < MaxReq
  /\ req' = Append(req, BuscarStart(NewRequest("buscar_similar", body)))
  /\ lastGen' = NoGen
  /\ UNCHANGED <<store, now>>

BuscarAfterEmbed(rq, hf) ==
  LET e == GetEmbedding(hf, rq.body["texto"]) IN
  IF e.threw
  THEN Fail(rq, BuscarFailed)
  ELSE [Await(rq, "query") EXCEPT !.vector = e.value]

BuscarEmbedded(r, hf) ==
  /\ Awaits(r, "buscar_similar", "embed")
  /\ Resume(r, BuscarAfterEmbed(Settle(req[r]), hf))

\* Faulty variant: no check for an empty result; reading the best match of none
\* throws inside the try block and the catch block answers 500.
BuscarAfterQueryUnchecked(rq, q) ==
  IF q.threw
  THEN Fail(rq, BuscarFailed)
  ELSE IF q.matches = Undefined \/ Len(TheValue(q.matches)) = 0
       THEN Respond(rq, 500, ErrorJson(BuscarFailed))
       ELSE LET bestMatch == TheValue(q.matches)[1] IN
            Respond(rq, 200,
                    [id |-> bestMatch.id, score |-> bestMatch.score,
                     metadata |-> bestMatch.metadata])

\* The handler after the query: 404 without a match, else the best match.
BuscarAfterQuery(rq, q) ==
  IF q.threw
  THEN Fail(rq, BuscarFailed)
  ELSE IF q.matches = Undefined \/ Len(TheValue(q.matches)) = 0
       THEN Respond(rq, 404, ErrorJson(BuscarNotFound))
       ELSE LET bestMatch == TheValue(q.matches)[1] IN
            Respond(rq, 200,
                    [id |-> bestMatch.id, score |-> bestMatch.score,
                     metadata |-> bestMatch.metadata])

BuscarQueried(r, q) ==
  /\ Awaits(r, "buscar_similar", "query")
  /\ Resume(r, BuscarAfterQuery(Settle(req[r]), q))

(***************************************************************************)
(* POST /generate-copies                                                   *)
(***************************************************************************)
GenerateStart(rq) ==
  IF ~Truthy(Field(rq.body, "url"))
  THEN Respond(rq, 400, ErrorJson(GenerateMissing))
  ELSE Await(rq, "fetch")

\* The request arrives and the handler runs up to its first await.
Generate(body) ==
  /\ Len(req) < MaxReq
  /\ req' = Append(req, GenerateStart(NewRequest("generate-copies", body)))
  /\ lastGen' = NoGen
  /\ UNCHANGED <<store, now>>

\* Faulty variant: a failed extraction is swallowed and the flow goes on without a
\* title.
GenerateAfterExtractSwallowed(rq, p) ==
  LET x == GetTitleAndDescription(p) IN
  [Await(rq, "embed") EXCEPT
     !.page = p,
     !.title = x.title,
     !.description = x.description,
     !.combinedText = x.title \o <<".", " ">> \o x.description]

\* getTitleAndDescription returned or threw; then combinedText is built and
\* the embedding of the title is asked for.
GenerateAfterExtract(rq, p) ==
  LET x == GetTitleAndDescription(p) IN
  IF x.threw
  THEN [Fail(rq, GenerateFailed) EXCEPT !.page = p]
  ELSE [Await(rq, "embed") EXCEPT
          !.page = p,
          !.title = x.title,
          !.description = x.description,
          !.combinedText = x.title \o <<".", " ">> \o x.description]

GenerateExtracted(r, p) ==
  /\ Awaits(r, "generate-copies", "fetch")
  /\ Resume(r, GenerateAfterExtract(Settle(req[r]), p))

GenerateAfterEmbed(rq, hf) ==
  LET e == GetEmbedding(hf, rq.title) IN
  IF e.threw
  THEN Fail(rq, GenerateFailed)
  ELSE [Await(rq, "query") EXCEPT !.vector = e.value]

GenerateEmbedded(r, hf) ==
  /\ Awaits(r, "generate-copies", "embed")
  /\ Resume(r, GenerateAfterEmbed(Settle(req[r]), hf))

\* match.metadata?.copy || ""
MatchCopy(m) ==
  LET c == Prop(Prop(Some(m), "metadata"), "copy") IN
  IF Truthy(c) THEN TheValue(c) ELSE <<>>

\* results.matches?.map(...) || []
Similares(q) ==
  IF q.matches = Undefined THEN <<>>
  ELSE [i \in 1..Len(TheValue(q.matches)) |->
          [copy |-> MatchCopy(TheValue(q.matches)[i])]]

Digit(i) == CASE i = 1 -> "1" [] i = 2 -> "2" [] i = 3 -> "3" [] OTHER -> "n"

ReferencesHeader ==
  <<"Aqui hay algunos ejemplos de Facebook copies anteriores:", "\n", "\n">>

\* `Ejemplo ${i + 1}: "${s.copy}"`
Ejemplo(i, s) == <<"Ejemplo ", Digit(i), ": ", "\"">> \o s.copy \o <<"\"">>

\* similares.map(...).join("\n\n"), from entry i on
RECURSIVE JoinEjemplos(_, _)
JoinEjemplos(similares, i) ==
  IF i > Len(similares) THEN <<>>
  ELSE IF i = Len(similares) THEN Ejemplo(i, similares[i])
  ELSE Ejemplo(i, similares[i]) \o <<"\n", "\n">> \o JoinEjemplos(similares, i + 1)

ReferencesFb(similares) ==
  IF Len(similares) > 0
  THEN ReferencesHeader \o JoinEjemplos(similares, 1)
  ELSE <<>>

\* The three prompts: the fixed instructions and what is spliced into them.
FbPrompt(rq) ==
  [instructions |-> "facebook", references |-> rq.referencesFb,
   noticia |-> rq.title]
TwitterPrompt(rq) == [instructions |-> "twitter", noticia |-> rq.combinedText]
WppPrompt(rq) == [instructions |-> "wpp", noticia |-> rq.combinedText]

\* Faulty variant: the three generation calls are issued together, as with
\* Promise.all, and the handler awaits the facebook one first.
GenerateAfterQueryFanOut(rq, q) ==
  IF q.threw
  THEN Fail(rq, GenerateFailed)
  ELSE [Await(Await(Await(rq, "wpp"), "twitter"), "facebook") EXCEPT
          !.similares = Similares(q),
          !.referencesFb = ReferencesFb(Similares(q))]

\* The query returned or threw; then the references and the facebook prompt
\* are built and the facebook copy is asked for.
GenerateAfterQuery(rq, q) ==
  IF q.threw
  THEN Fail(rq, GenerateFailed)
  ELSE [Await(rq, "facebook") EXCEPT
          !.similares = Similares(q),
          !.referencesFb = ReferencesFb(Similares(q))]

GenerateQueried(r, q) ==
  /\ Awaits(r, "generate-copies", "query")
  /\ Resume(r, GenerateAfterQuery(Settle(req[r]), q))

\* model.generateContent([fbPrompt]) returned or threw; then the twitter
\* copy is asked for.
GenerateAfterFacebook(rq, g) ==
  IF g = "throw"
  THEN Fail(rq, GenerateFailed)
  ELSE [Await(rq, "twitter") EXCEPT
          !.facebookCopy = Trim(CopyRaw(GenResult(g)))]

\* model.generateContent([twitterPrompt]) returned or threw; then the wpp
\* copy is asked for.
GenerateAfterTwitter(rq, g) ==
  IF g = "throw"
  THEN Fail(rq, GenerateFailed)
  ELSE [Await(rq, "wpp") EXCEPT
          !.twitterText = Trim(CopyRaw(GenResult(g)))]

\* model.generateContent([wppPrompt]) returned or threw; then the short URL
\* is asked for.
GenerateAfterWpp(rq, g) ==
  IF g = "throw"
  THEN Fail(rq, GenerateFailed)
  ELSE [Await(rq, "shorten") EXCEPT
          !.wppText = Trim(CopyRaw(GenResult(g)))]

\* A generateContent call of request r returns; lastGen records it.
Generated(r, platform, g, rq) ==
  /\ Awaits(r, "generate-copies", platform)
  /\ req' = [req EXCEPT ![r] = rq]
  /\ lastGen' = [req |-> r, platform |-> platform, result |-> g]
  /\ UNCHANGED <<store, now>>

GenerateFacebook(r, g) ==
  Generated(r, "facebook", g, GenerateAfterFacebook(Settle(req[r]), g))

GenerateTwitter(r, g) ==
  Generated(r, "twitter", g, GenerateAfterTwitter(Settle(req[r]), g))

GenerateWpp(r, g) ==
  Generated(r, "wpp", g, GenerateAfterWpp(Settle(req[r]), g))

\* The read-more phrase between the wpp text and the short URL.
LeeMas == <<" Lee mas aqui ">>

\* Faulty variant: the facebook and twitter texts land under each other's key.
GenerateJsonSwapped(rq, shortUrl) ==
  [facebook |-> rq.twitterText,
   twitter |-> rq.facebookCopy \o <<"\n">> \o rq.body["url"],
   wpp |-> rq.wppText \o LeeMas \o shortUrl,
   foundCopies |-> rq.similares]

\* The body of the success response.
GenerateJson(rq, shortUrl) ==
  [facebook |-> rq.facebookCopy,
   twitter |-> rq.twitterText \o <<"\n">> \o rq.body["url"],
   wpp |-> rq.wppText \o LeeMas \o shortUrl,
   foundCopies |-> rq.similares]

\* shortenUrl returned or threw; with the short URL the answer is composed.
GenerateAfterShorten(rq, s) ==
  IF ShortenThrows(s)
  THEN Fail(rq, GenerateFailed)
  ELSE Respond(rq, 200, GenerateJson(rq, ShortLink))

GenerateShortened(r, s) ==
  /\ Awaits(r, "generate-copies", "shorten")
  /\ Resume(r, GenerateAfterShorten(Settle(req[r]), s))

(***************************************************************************)
(* The server                                                              *)
(***************************************************************************)
Next ==
  \/ \E body \in IndexarBodies : Indexar(body)
  \/ \E r \in Reqs, hf \in HfResults : IndexarEmbedded(r, hf)
  \/ \E r \in Reqs, ok \in BOOLEAN : IndexarUpserted(r, ok)
  \/ \E body \in GenerateBodies : Generate(body)
  \/ \E r \in Reqs, p \in PageResults : GenerateExtracted(r, p)
  \/ \E r \in Reqs, hf \in HfResults : GenerateEmbedded(r, hf)
  \/ \E r \in Reqs : \E q \in QueryResults(store, GenerateTopK) :
       GenerateQueried(r, q)
  \/ \E r \in Reqs, g \in GenResults : GenerateFacebook(r, g)
  \/ \E r \in Reqs, g \in GenResults : GenerateTwitter(r, g)
  \/ \E r \in Reqs, g \in GenResults : GenerateWpp(r, g)
  \/ \E r \in Reqs, s \in ShortenResults : GenerateShortened(r, s)
  \/ \E body \in BuscarBodies : Buscar(body)
  \/ \E r \in Reqs, hf \in HfResults : BuscarEmbedded(r, hf)
  \/ \E r \in Reqs : \E q \in QueryResults(store, BuscarTopK) :
       BuscarQueried(r, q)

Spec == Init /\ [][Next]_vars

(***************************************************************************)
(* Properties                                                              *)
(***************************************************************************)
Range(s) == {s[i] : i \in DOMAIN s}

IsIndexar(r) == req[r].kind = "indexar"
IsGenerate(r) == req[r].kind = "generate-copies"
IsBuscar(r) == req[r].kind = "buscar_similar"

\* The calls of request r that have returned or thrown.
Returned(r) == Range(req[r].calls) \ req[r].pending

\* t is s without its leading and trailing whitespace.
IsTrimOf(t, s) ==
  \E i, j \in 0..Len(s) :
    /\ i + j <= Len(s)
    /\ t = SubSeq(s, i + 1, Len(s) - j)
    /\ \A k \in 1..i : s[k] \in Whitespace
    /\ \A k \in (Len(s) - j + 1)..Len(s) : s[k] \in Whitespace
    /\ t # <<>> => (t[1] \notin Whitespace /\ t[Len(t)] \notin Whitespace)

RequiredFields(kind) ==
  CASE kind = "indexar" -> {"noticia", "copy"}
    [] kind = "generate-copies" -> {"url"}
    [] kind = "buscar_similar" -> {"texto"}

MissingField(rq) == \E f \in RequiredFields(rq.kind) : f \notin DOMAIN rq.body

\* C1: a request of any of the three endpoints whose body lacks a required
\* field is answered 400 with a body that has an error field.
C1_MissingFieldIs400 ==
  \A r \in Reqs :
    MissingField(req[r]) =>
      /\ req[r].status = 400
      /\ "error" \in DOMAIN req[r].json

C1_Witness ==
  \E r1, r2 \in Reqs :
    /\ IsIndexar(r1) /\ DOMAIN req[r1].body = {"copy"} /\ req[r1].status = 400
    /\ ~IsIndexar(r2) /\ MissingField(req[r2]) /\ req[r2].status = 400

\* C2: when getTitleAndDescription throws for the page a generate-copies
\* request fetched, the request is answered 500 and the fetch is the only
\* external call it ever issued.
C2_ExtractorFailureStopsTheFlow ==
  \A r \in Reqs :
    (IsGenerate(r) /\ req[r].page # "" /\ GetTitleAndDescription(req[r].page).threw) =>
      /\ req[r].status = 500
      /\ req[r].calls = <<"fetch">>
      /\ req[r].pending = {}

C2_Witness ==
  \E r \in Reqs :
    IsGenerate(r) /\ req[r].page = "noDescription" /\ req[r].status = 500

\* C3: a generate-copies request one of whose external calls threw is
\* answered 500 with a body holding the error field alone; the call that
\* threw is the last one it issued; and a generateContent call that throws
\* is recorded as the failure of its request.
C3_FailureAbortsWithErrorOnly ==
  /\ \A r \in Reqs :
       (IsGenerate(r) /\ req[r].failed # "") =>
         /\ req[r].pc = "done"
         /\ req[r].status = 500
         /\ DOMAIN req[r].json = {"error"}
         /\ req[r].calls[Len(req[r].calls)] = req[r].failed
         /\ req[r].pending = {}
  /\ \A r \in Reqs :
       (IsGenerate(r) /\ req[r].status = 500) => req[r].failed # ""
  /\ lastGen.result = "throw" => req[lastGen.req].failed = lastGen.platform

\* The wpp call threw after the facebook and twitter copies were generated.
C3_Witness ==
  \E r \in Reqs :
    /\ IsGenerate(r) /\ req[r].failed = "wpp"
    /\ {"facebook", "twitter"} \subseteq Returned(r)
    /\ lastGen = [req |-> r, platform |-> "wpp", result |-> "throw"]

CopyText(rq, platform) ==
  CASE platform = "facebook" -> rq.facebookCopy
    [] platform = "twitter" -> rq.twitterText
    [] platform = "wpp" -> rq.wppText

\* The text of the one result of GenResults that carries a usable text.
ProviderText == GenResult("padded").response.candidates[1].content.parts[1].text

\* The provider returned its text to all three calls of request r.
AllTexts(r) ==
  \A p \in Platforms : IsTrimOf(CopyText(req[r], p), ProviderText)

\* C5 as stated: when the provider returned a text to each of the three
\* calls, the success response holds exactly the three trimmed texts under
\* facebook, twitter and wpp.
C5_ExactlyTheTrimmedTexts ==
  \A r \in Reqs :
    (IsGenerate(r) /\ req[r].status = 200 /\ AllTexts(r)) =>
      \A p \in Platforms : IsTrimOf(req[r].json[p], ProviderText)

\* C5 amended: a non-empty text the provider returns to a call is kept
\* trimmed as the copy text of that call's platform, and the success
\* response holds the facebook text as it is, the twitter text followed by a
\* newline and the request's url, and the wpp text followed by the
\* read-more phrase and the short URL.
C5_TextsUnderTheirKeys ==
  /\ lastGen.result = "padded" =>
       IsTrimOf(CopyText(req[lastGen.req], lastGen.platform), ProviderText)
  /\ \A r \in Reqs :
       (IsGenerate(r) /\ req[r].status = 200) =>
         /\ req[r].json.facebook = req[r].facebookCopy
         /\ req[r].json.twitter = req[r].twitterText \o <<"\n">> \o req[r].body.url
         /\ req[r].json.wpp = req[r].wppText \o LeeMas \o ShortLink

C5_Witness ==
  \E r \in Reqs :
    /\ IsGenerate(r) /\ req[r].status = 200 /\ AllTexts(r)
    /\ req[r].json.facebook = <<"b", " ", "c">>
    /\ req[r].json.twitter = <<"b", " ", "c", "\n", "u">>

\* C6: while the store is empty, a generate-copies request none of whose
\* calls threw has no similar copy and no reference block in its facebook
\* prompt and is answered 200 with foundCopies empty, and a buscar_similar
\* request none of whose calls threw is answered 404.
C6_EmptyStoreIsNotAnError ==
  store = {} =>
    \A r \in Reqs :
      /\ (IsGenerate(r) /\ "facebook" \in Range(req[r].calls) /\ req[r].failed = "") =>
           /\ req[r].similares = <<>>
           /\ FbPrompt(req[r]).references = <<>>
      /\ (IsGenerate(r) /\ req[r].pc = "done" /\ req[r].status # 400
            /\ req[r].failed = "") =>
           /\ req[r].status = 200
           /\ req[r].json.foundCopies = <<>>
      /\ (IsBuscar(r) /\ req[r].pc = "done" /\ req[r].status # 400
            /\ req[r].failed = "") =>
           req[r].status = 404

C6_Witness ==
  /\ store = {}
  /\ \E r1, r2 \in Reqs :
       /\ IsGenerate(r1) /\ req[r1].status = 200 /\ req[r1].json.foundCopies = <<>>
       /\ IsBuscar(r2) /\ req[r2].status = 404

\* The /indexar requests that were answered success.
Indexed == {r \in Reqs : IsIndexar(r) /\ req[r].status = 200}

\* C7: no two /indexar requests that answered success wrote under the same
\* id, and the store holds one record for each of them.
C7_IdsAreUnique ==
  /\ \A r1, r2 \in Indexed : r1 # r2 => req[r1].id # req[r2].id
  /\ Cardinality(store) = Cardinality(Indexed)

\* The title the spec's lookup order yields: og:title, else the <title>.
FallbackTitle(p) ==
  IF Truthy(Page(p).ogTitle) THEN Page(p).ogTitle ELSE Page(p).titleTag

\* C8 as stated: the extraction fails only when the fetch fails or neither
\* og:title nor the <title> element gives a usable title.
C8_TitleFallsBackToTitleElement ==
  \A r \in Reqs :
    (IsGenerate(r) /\ req[r].page # "") =>
      (req[r].failed = "fetch" <=>
         (req[r].page = "fetchFail" \/ ~Truthy(FallbackTitle(req[r].page))))

\* C8 amended: the extractor reads og:title and og:description alone; it
\* fails when the fetch fails or either of the two is absent or empty, also
\* for a page that has a <title> element, and otherwise yields the two
\* contents trimmed.
C8_BothOgTagsRequired ==
  \A r \in Reqs :
    (IsGenerate(r) /\ req[r].page # "") =>
      IF req[r].page = "fetchFail"
      THEN req[r].failed = "fetch"
      ELSE LET page == Page(req[r].page) IN
           IF ~Truthy(page.ogTitle) \/ ~Truthy(page.ogDescription)
           THEN req[r].failed = "fetch"
           ELSE /\ req[r].failed # "fetch"
                /\ IsTrimOf(req[r].title, TheValue(page.ogTitle))
                /\ IsTrimOf(req[r].description, TheValue(page.ogDescription))

\* A page with a <title> element and a description, but no og:title, failed.
C8_Witness ==
  \E r \in Reqs :
    /\ IsGenerate(r) /\ req[r].page = "titleTagOnly"
    /\ req[r].failed = "fetch" /\ req[r].status = 500

\* The results of generateContent without a usable first-candidate text.
Unusable == {"noResponse", "noCandidates", "noParts", "emptyText"}

\* C9: a generateContent call that returns without a usable text leaves the
\* placeholder as the copy text of its platform and the request goes on to
\* its next call; the request fails at a generation call only when the
\* call threw.
C9_PlaceholderForUnusableResult ==
  lastGen.req # 0 =>
    LET rq == req[lastGen.req] IN
    /\ lastGen.result \in Unusable =>
         CopyText(rq, lastGen.platform) = Placeholder
    /\ lastGen.result # "throw" =>
         /\ rq.status = 0 /\ rq.failed = ""
         /\ rq.pc \notin {"done", lastGen.platform}
    /\ rq.failed = lastGen.platform => lastGen.result = "throw"

C9_Witness ==
  /\ lastGen.platform = "twitter" /\ lastGen.result = "noParts"
  /\ req[lastGen.req].twitterText = Placeholder
  /\ req[lastGen.req].pc = "wpp"

\* The step writes the store for request r: r is an /indexar request whose
\* fields were validated, whose embedding was obtained and whose upsert now
\* returns, for the first time.
WritesFor(r) ==
  /\ IsIndexar(r) /\ req[r].pc = "upsert"
  /\ Truthy(Field(req[r].body, "noticia")) /\ Truthy(Field(req[r].body, "copy"))
  /\ Returned(r) = {"embed"}
  /\ req[r].vector = Vector(req[r].body.noticia)
  /\ req[r].wrote = 0 /\ req'[r].wrote = 1
  /\ \A o \in Reqs \ {r} : req'[o] = req[o]

\* C10: a step that changes the store is the return of the upsert of an
\* /indexar request whose fields were validated and whose embedding
\* succeeded; a request writes at most once, and a request answered 400, an
\* /indexar request whose embedding failed and every request of the other
\* two endpoints never write.
C10_OnlyIndexarWritesTheStore ==
  /\ [][(store' # store \/ \E r \in Reqs : req'[r].wrote # req[r].wrote)
          => \E r \in Reqs : WritesFor(r)]_vars
  /\ [](\A r \in Reqs :
          /\ req[r].wrote <= 1
          /\ (~IsIndexar(r) \/ req[r].status = 400 \/ req[r].failed = "embed")
               => req[r].wrote = 0)

\* An /indexar request wrote, and a buscar_similar request found the record.
C10_Witness ==
  \E r1, r2 \in Reqs :
    /\ IsIndexar(r1) /\ req[r1].wrote = 1
    /\ IsBuscar(r2) /\ req[r2].status = 200
    /\ Cardinality(store) = 1

====
